---- MODULE Spec2Model ----
(***************************************************************************)
(* Clear sky detection (src/src/clearskies.cpp): the five clear sky        *)
(* criteria of a window, their comparison to the thresholds, and the       *)
(* rolling window scan of clear_points that builds the mask of clear       *)
(* points.                                                                 *)
(*                                                                         *)
(* Numbers.  The series and the threshold bounds are integer valued        *)
(* doubles and are kept by their integer value.  A computed double is a    *)
(* record [k, v]: k = "fin" with v the value in units of 1/Scale (fixed    *)
(* point, rounded down), or k = "ninf", "pinf", "nan" for -Inf, +Inf and   *)
(* NaN with v = 0.  Comparisons follow IEEE 754: any comparison with NaN   *)
(* is false.                                                               *)
(***************************************************************************)
EXTENDS Integers, Sequences, FiniteSets, TLC

\* Longest series drawn as an input.
MaxLen == 4
\* Resolution of the fixed point form of a double: 1/Scale.
Scale == 100
\* Number of clear sky criteria, and of threshold ranges a call must give.
NumCriteria == 5

VARIABLES
    pc,          \* position of a call of clear_points: start, scan, done,
                 \* error, cancelled; of a lone call of evaluate_criterion:
                 \* eval, evaluated
    x,           \* measured irradiance (argument)
    cs,          \* predicted irradiance (argument)
    thresholds,  \* list of threshold vectors (argument)
    window_len,  \* window length (argument)
    clear,       \* the LogicalVector being built; <<>> when not allocated
    i,           \* offset of iterator i from x.begin(); j and k move with it
    criterion,   \* local: the criteria of the last window computed
    allclear,    \* local: the verdict on the last window
    result,      \* what the call returned: <<"none">> or <<"mask", clear>>
    err,         \* the exception that left the call, "" when none
    pending,     \* a user interrupt was signalled and is not yet handled
    visited,     \* history: the window offsets processed, in order
    checks       \* history: number of calls of Rcpp::checkUserInterrupt

vars == <<pc, x, cs, thresholds, window_len, clear, i, criterion, allclear,
          result, err, pending, visited, checks>>

----------------------------------------------------------------------------
(* Doubles *)

Fin(v) == [k |-> "fin", v |-> v]
NegInf == [k |-> "ninf", v |-> 0]
PosInf == [k |-> "pinf", v |-> 0]
NaN == [k |-> "nan", v |-> 0]

\* An integer valued double.
ToDouble(m) == Fin(m * Scale)

\* a < b on doubles.
DLess(a, b) ==
    IF a.k = "nan" \/ b.k = "nan" THEN FALSE
    ELSE IF a.k = "ninf" THEN b.k # "ninf"
    ELSE IF a.k = "pinf" THEN FALSE
    ELSE IF b.k = "ninf" THEN FALSE
    ELSE IF b.k = "pinf" THEN TRUE
    ELSE a.v < b.v

\* a - b on doubles.
DMinus(a, b) ==
    IF a.k = "nan" \/ b.k = "nan" THEN NaN
    ELSE IF a.k = "fin" /\ b.k = "fin" THEN Fin(a.v - b.v)
    ELSE IF a.k = "fin" THEN (IF b.k = "ninf" THEN PosInf ELSE NegInf)
    ELSE IF b.k = "fin" THEN a
    ELSE IF a.k = b.k THEN NaN
    ELSE a

\* a / b on doubles, for a >= 0 or NaN and finite b >= 0.
DDiv(a, b) ==
    IF a.k = "nan" THEN NaN
    ELSE IF b.v = 0 THEN (IF a.k = "fin" /\ a.v = 0 THEN NaN ELSE PosInf)
    ELSE IF a.k = "fin" THEN Fin((a.v * Scale) \div b.v)
    ELSE a

RECURSIVE IsqrtIn(_, _, _)
IsqrtIn(m, lo, hi) ==
    IF lo >= hi THEN lo
    ELSE LET mid == (lo + hi + 1) \div 2
         IN  IF mid * mid <= m THEN IsqrtIn(m, mid, hi)
             ELSE IsqrtIn(m, lo, mid - 1)

\* Largest r with r * r <= m.
Isqrt(m) == IsqrtIn(m, 0, IF m < 46340 THEN m ELSE 46340)

\* sqrt of a value given in units of 1/Scale, in units of 1/Scale.
SqrtFix(v) == Isqrt(v * Scale)

----------------------------------------------------------------------------
(* Vector helpers (Rcpp sugar) *)

RECURSIVE SumSeq(_)
SumSeq(s) == IF s = <<>> THEN 0 ELSE Head(s) + SumSeq(Tail(s))

\* max of a non empty vector of integers.
MaxSeq(s) == CHOOSE m \in {s[q] : q \in DOMAIN s} :
                 \A q \in DOMAIN s : s[q] <= m

MinSeq(s) == CHOOSE m \in {s[q] : q \in DOMAIN s} :
                 \A q \in DOMAIN s : m <= s[q]

Abs(a) == IF a < 0 THEN -a ELSE a

\* diff(v): the Len(v) - 1 differences of neighbours; empty for one element.
Diff(v) == [q \in 1..(Len(v) - 1) |-> v[q + 1] - v[q]]

\* mean(v) of a non empty vector of integers >= 0, in units of 1/Scale.
MeanFix(v) == (SumSeq(v) * Scale) \div Len(v)

----------------------------------------------------------------------------
(* The five criteria *)

\* Line length: sum(sqrt(pow(diff(v), 2) + 1)), in units of 1/Scale.
\* The sum over no differences (a window of one point) is 0.
L(v) ==
    LET d == Diff(v)
    IN  SumSeq([q \in DOMAIN d |-> SqrtFix((d[q] * d[q] + 1) * Scale)])

\* sd(s) = sqrt(var(s)), var(s) = sum((s - mean(s))^2) / (m - 1) for m
\* values: 0/0 = NaN for one value, 0/(-1) = -0 for none.
\* sum((s - mean(s))^2) = (m * sum(s^2) - sum(s)^2) / m.
Sd(s) ==
    LET m == Len(s)
        sq == SumSeq([q \in DOMAIN s |-> s[q] * s[q]])
        su == SumSeq(s)
    IN  IF m = 0 THEN Fin(0)
        ELSE IF m = 1 THEN NaN
        ELSE Fin(SqrtFix(((m * sq - su * su) * Scale) \div (m * (m - 1))))

\* Normalized standard deviation of the slope; 0 when the quotient is NaN or
\* infinite.
sigma(v) ==
    LET r == DDiv(Sd(Diff(v)), Fin(MeanFix(v)))
    IN  IF r.k = "nan" \/ r.k = "pinf" \/ r.k = "ninf" THEN Fin(0) ELSE r

\* Maximum deviation from the clear sky slope: max(abs(diff(v) - diff(c))).
\* The max of no values (a window of one point) is -Inf.
S(v, c) ==
    LET dv == Diff(v)
        dc == Diff(c)
    IN  IF Len(dv) = 0 THEN NegInf
        ELSE ToDouble(MaxSeq([q \in DOMAIN dv |-> Abs(dv[q] - dc[q])]))

\* The criteria of a window, keys 0..4 of the map as positions 1..5.
calculate_criterion(v, c) ==
    LET mean_diff == DMinus(Fin(MeanFix(v)), Fin(MeanFix(c)))
        max_diff == ToDouble(MaxSeq(v) - MaxSeq(c))
        line_len_diff == Fin(L(v) - L(c))
        sigma_diff == DMinus(sigma(v), sigma(c))
        max_dev == S(v, c)
    IN  <<mean_diff, max_diff, line_len_diff, sigma_diff, max_dev>>

----------------------------------------------------------------------------
(* Comparison to the thresholds *)

\* Variant: max(bounds) written for min(bounds) in the first comparison.
OutOfBoundsMaxTwice(criteria, bounds) ==
    \/ DLess(criteria, ToDouble(MaxSeq(bounds)))
    \/ DLess(ToDouble(MaxSeq(bounds)), criteria)

\* Variant: the upper bound excluded (>= for >).
OutOfBoundsUpperExcluded(criteria, bounds) ==
    \/ DLess(criteria, ToDouble(MinSeq(bounds)))
    \/ ~DLess(criteria, ToDouble(MaxSeq(bounds)))

\* One pass of the loop body for position q: TRUE when the criteria lies
\* outside [min(bounds), max(bounds)].
OutOfBounds(criteria, bounds) ==
    \/ DLess(criteria, ToDouble(MinSeq(bounds)))
    \/ DLess(ToDouble(MaxSeq(bounds)), criteria)

RECURSIVE EvaluateFrom(_, _, _)
EvaluateFrom(crit, th, q) ==
    IF q > Len(crit) THEN TRUE
    ELSE IF OutOfBounds(crit[q], th[q]) THEN FALSE
    ELSE EvaluateFrom(crit, th, q + 1)

\* The iterators i over the criteria and j over the thresholds move together
\* from the first position; the first criteria out of bounds returns false.
evaluate_criterion(crit, th) == EvaluateFrom(crit, th, 1)

----------------------------------------------------------------------------
(* The scan of clear_points *)

NoResult == <<"none">>
Returned(mask) == <<"mask", mask>>

\* LogicalVector clear(len): all false.
AllFalse(len) == [q \in 1..len |-> FALSE]

\* obs.assign(i, i + window_len): the len values of v from offset off.
Window(v, off, len) == SubSeq(v, off + 1, off + len)

\* Variant: the range is filled with the verdict (std::fill for the guarded
\* std::replace), so a window judged not clear resets its range.
MarkWindowAssign(mask, off, len, verdict) ==
    [q \in DOMAIN mask |->
        IF off < q /\ q <= off + len THEN verdict ELSE mask[q]]

\* Variant: the range ends one short, at k + window_len - 1.
MarkWindowShort(mask, off, len, verdict) ==
    IF verdict
    THEN [q \in DOMAIN mask |->
            IF off < q /\ q <= off + len - 1 /\ mask[q] = FALSE
            THEN TRUE ELSE mask[q]]
    ELSE mask

\* if (allclear) std::replace(k, k + window_len, false, true)
MarkWindow(mask, off, len, verdict) ==
    IF verdict
    THEN [q \in DOMAIN mask |->
            IF off < q /\ q <= off + len /\ mask[q] = FALSE
            THEN TRUE ELSE mask[q]]
    ELSE mask

\* The criteria of the window at offset off.
WindowCriterion(xs, css, w, off) ==
    calculate_criterion(Window(xs, off, w), Window(css, off, w))

\* The verdict on the window at offset off.
WindowClear(xs, css, th, w, off) ==
    evaluate_criterion(WindowCriterion(xs, css, w, off), th)

\* Variant: the loop test without the + 1, which leaves out the last window.
LoopContinuesEarly(xs, w, off) == off # Len(xs) - w

\* The loop test i != x.end() - window_len + 1.
LoopContinues(xs, w, off) == off # Len(xs) - w + 1

RECURSIVE ScanFrom(_, _, _, _, _, _)
ScanFrom(xs, css, th, w, off, mask) ==
    IF ~LoopContinues(xs, w, off) THEN mask
    ELSE ScanFrom(xs, css, th, w, off + 1,
                  MarkWindow(mask, off, w, WindowClear(xs, css, th, w, off)))

\* The mask an uninterrupted call returns on a valid input.
clear_points(xs, css, th, w) ==
    ScanFrom(xs, css, th, w, 0, AllFalse(Len(xs)))

\* The three tests on the arguments, in the order the code makes them.
LengthMismatch == Len(x) # Len(cs)
InvalidWindowLength == window_len <= 0 \/ window_len > Len(x)
\* Variant: only too few thresholds are refused.
TooFewThresholds == Len(thresholds) < NumCriteria

InvalidThresholdCount == Len(thresholds) # NumCriteria

\* The messages of the three exceptions.
ErrLength == "x must be the same length as cs"
ErrWindow == "Incorrect value to window_len"
ErrThresholds == "Thresholds must be a list of length 5"

----------------------------------------------------------------------------
(* Inputs *)

\* Values of the measured and of the predicted series by day, and by night.
MVals == {100, 200}
PVals == {100, 200}
NightVals == {0}

Series(V) == UNION {[1..len -> V] : len \in 0..MaxLen}

Uniform(pair, len) == [q \in 1..len |-> pair]

Zero == Uniform(<<0, 0>>, NumCriteria)
Tight == Uniform(<<-1, 1>>, NumCriteria)
Mixed == <<(<<-100, 100>>), (<<100, -100>>), (<<-1, 1>>), (<<0, 0>>), (<<100, 0>>)>>
Wide == Uniform(<<200, -200>>, NumCriteria)
Short == Uniform(<<-1, 1>>, NumCriteria - 1)
Long == Uniform(<<-1, 1>>, NumCriteria + 1)

ThresholdSets == {Zero, Tight, Mixed, Wide, Short, Long}

----------------------------------------------------------------------------
(* The call of clear_points *)

Init ==
    /\ pc = "start"
    /\ \/ x \in Series(MVals) /\ cs \in Series(PVals) /\ Len(cs) = Len(x)
       \/ x \in Series(NightVals) /\ cs \in Series(NightVals)
    /\ thresholds \in ThresholdSets
    /\ window_len \in 0..(MaxLen + 1)
    /\ clear = <<>>
    /\ i = 0
    /\ criterion = <<>>
    /\ allclear = FALSE
    /\ result = NoResult
    /\ err = ""
    /\ pending = FALSE
    /\ visited = <<>>
    /\ checks = 0

Throw(what) ==
    /\ pc' = "error"
    /\ err' = what
    /\ UNCHANGED <<x, cs, thresholds, window_len, clear, i, criterion,
                   allclear, result, pending, visited, checks>>

ThrowLengthMismatch ==
    /\ pc = "start"
    /\ LengthMismatch
    /\ Throw(ErrLength)

ThrowWindowLength ==
    /\ pc = "start"
    /\ ~LengthMismatch
    /\ InvalidWindowLength
    /\ Throw(ErrWindow)

ThrowThresholdCount ==
    /\ pc = "start"
    /\ ~LengthMismatch
    /\ ~InvalidWindowLength
    /\ InvalidThresholdCount
    /\ Throw(ErrThresholds)

\* The arguments passed the tests: allocate the mask, place the iterators
\* and make the first loop test.
Begin ==
    /\ pc = "start"
    /\ ~LengthMismatch
    /\ ~InvalidWindowLength
    /\ ~InvalidThresholdCount
    /\ clear' = AllFalse(Len(x))
    /\ i' = 0
    /\ IF LoopContinues(x, window_len, 0)
       THEN pc' = "scan" /\ result' = result
       ELSE pc' = "done" /\ result' = Returned(clear')
    /\ UNCHANGED <<x, cs, thresholds, window_len, criterion, allclear,
                   err, pending, visited, checks>>

\* The loop body up to the call of checkUserInterrupt.
Body ==
    /\ pc = "scan"
    /\ criterion' = WindowCriterion(x, cs, window_len, i)
    /\ allclear' = evaluate_criterion(criterion', thresholds)
    /\ visited' = Append(visited, i)
    /\ checks' = checks + 1

\* The user interrupts while the scan runs; the scan sees it at its next
\* call of checkUserInterrupt.
Signal ==
    /\ pc = "scan"
    /\ ~pending
    /\ pending' = TRUE
    /\ UNCHANGED <<pc, x, cs, thresholds, window_len, clear, i, criterion,
                   allclear, result, err, visited, checks>>

\* One iteration with no interrupt pending: the iterators advance; when the
\* loop test fails the mask is returned.
Iterate ==
    /\ Body
    /\ ~pending
    /\ clear' = MarkWindow(clear, i, window_len, allclear')
    /\ i' = i + 1
    /\ IF LoopContinues(x, window_len, i')
       THEN pc' = "scan" /\ result' = result
       ELSE pc' = "done" /\ result' = Returned(clear')
    /\ UNCHANGED <<x, cs, thresholds, window_len, err, pending>>

\* Variant: the interrupt is caught in the loop and the mask built so far is
\* returned.
IterateReturnsPartial ==
    /\ Body
    /\ pending
    /\ pending' = FALSE
    /\ clear' = MarkWindow(clear, i, window_len, allclear')
    /\ i' = i
    /\ pc' = "done"
    /\ err' = "interrupt"
    /\ result' = Returned(clear')
    /\ UNCHANGED <<x, cs, thresholds, window_len>>

\* One iteration with an interrupt pending: checkUserInterrupt throws, the
\* locals are destroyed and nothing is returned.
IterateInterrupted ==
    /\ Body
    /\ pending
    /\ pending' = FALSE
    /\ clear' = <<>>
    /\ i' = i
    /\ pc' = "cancelled"
    /\ err' = "interrupt"
    /\ UNCHANGED <<x, cs, thresholds, window_len, result>>

Next ==
    \/ ThrowLengthMismatch
    \/ ThrowWindowLength
    \/ ThrowThresholdCount
    \/ Begin
    \/ Signal
    \/ Iterate
    \/ IterateInterrupted

Spec == Init /\ [][Next]_vars

----------------------------------------------------------------------------
(* A lone call of evaluate_criterion *)

\* Criteria around the bounds of the ranges below, and the -Inf of S.
CriteriaVals == {Fin(-Scale - 1), Fin(-Scale), Fin(Scale), Fin(Scale + 1),
                 NegInf}

\* Two ranges, the bounds of the second given in descending order.
RangeVals == {<<-1, 1>>, <<2, 0>>}

InitEval ==
    /\ pc = "eval"
    /\ criterion \in [1..NumCriteria -> CriteriaVals]
    /\ thresholds \in [1..NumCriteria -> RangeVals]
    /\ x = <<>>
    /\ cs = <<>>
    /\ window_len = 0
    /\ clear = <<>>
    /\ i = 0
    /\ allclear = FALSE
    /\ result = NoResult
    /\ err = ""
    /\ pending = FALSE
    /\ visited = <<>>
    /\ checks = 0

Evaluate ==
    /\ pc = "eval"
    /\ allclear' = evaluate_criterion(criterion, thresholds)
    /\ pc' = "evaluated"
    /\ UNCHANGED <<x, cs, thresholds, window_len, clear, i, criterion,
                   result, err, pending, visited, checks>>

SpecEval == InitEval /\ [][Evaluate]_vars

----------------------------------------------------------------------------
(* Properties *)

\* The mask the call returned.
Mask == result[2]

\* Offsets of the windows of a valid call.
Starts == 0..(Len(x) - window_len)

\* Window off contains index q (indices from 1).
Covers(off, q) == off < q /\ q <= off + window_len

\* The verdict on window off of the call.
Verdict(off) == WindowClear(x, cs, thresholds, window_len, off)

\* The verdicts on all the windows of the call, by offset.
Verdicts == [off \in Starts |-> Verdict(off)]

\* C1: when clear_points returns, the mask has a value for every index, and
\* the value at an index is true exactly when some window containing the
\* index was judged clear: the OR of the verdicts of the windows over it.
C1_MaskIsOrOfWindows ==
    pc = "done" =>
        \A judged \in {Verdicts} :
            /\ DOMAIN Mask = 1..Len(x)
            /\ \A q \in 1..Len(x) :
                   Mask[q] <=> \E off \in Starts : Covers(off, q) /\ judged[off]

\* A returned mask with an index that is true although one of the windows
\* over it was judged not clear, and an index that is false.
C1_Witness ==
    /\ pc = "done"
    /\ \E q \in 1..Len(x) :
           /\ Mask[q]
           /\ \E off \in Starts : Covers(off, q) /\ ~Verdict(off)
    /\ \E q \in 1..Len(x) : ~Mask[q]

\* Nothing of the scan exists: no mask, no criteria, no window processed.
NothingScanned ==
    /\ result = NoResult
    /\ clear = <<>>
    /\ criterion = <<>>
    /\ visited = <<>>
    /\ checks = 0

\* C2 as stated: each kind of error is reported whenever its condition
\* holds, and a rejected call has scanned nothing.
C2_EachErrorWheneverItsCondition ==
    pc # "start" =>
        /\ (Len(x) # Len(cs)) => pc = "error" /\ err = ErrLength
        /\ (window_len <= 0 \/ window_len > Len(x))
               => pc = "error" /\ err = ErrWindow
        /\ (Len(thresholds) # 5) => pc = "error" /\ err = ErrThresholds
        /\ pc = "error" => NothingScanned

\* C2 amended: a call that violates a precondition is rejected with the
\* error of the first violated one in the order length, window, thresholds;
\* a valid call is not rejected; a rejected call has scanned nothing.
C2_FirstViolatedIsReported ==
    pc # "start" =>
        LET badLen == Len(x) # Len(cs)
            badWin == window_len <= 0 \/ window_len > Len(x)
            badThr == Len(thresholds) # 5
        IN  /\ badLen => pc = "error" /\ err = ErrLength
            /\ ~badLen /\ badWin => pc = "error" /\ err = ErrWindow
            /\ ~badLen /\ ~badWin /\ badThr
                   => pc = "error" /\ err = ErrThresholds
            /\ ~badLen /\ ~badWin /\ ~badThr => pc # "error"
            /\ pc = "error" => NothingScanned

\* A rejected call that violates the window and the threshold preconditions.
C2_Witness ==
    /\ pc = "error"
    /\ err = ErrWindow
    /\ window_len > Len(x)
    /\ Len(thresholds) # 5

\* Every range of the thresholds includes 0.
IncludesZero(th) ==
    \A q \in DOMAIN th : MinSeq(th[q]) <= 0 /\ 0 <= MaxSeq(th[q])

ZeroCriteria == [q \in 1..NumCriteria |-> Fin(0)]

\* C3: for measured = predicted and thresholds whose ranges all include 0,
\* for every valid window length (1 included), the criteria of every window
\* are all 0 and the returned mask is true everywhere.
C3_IdentityAllClear ==
    (x = cs /\ Len(thresholds) = 5 /\ IncludesZero(thresholds)) =>
        /\ pc \in {"scan", "done"} /\ criterion # <<>>
               => criterion = ZeroCriteria
        /\ pc = "done" => Mask = [q \in 1..Len(x) |-> TRUE]

\* The scenario of C4.
Scenario ==
    /\ x = <<100, 100, 200, 100>>
    /\ cs = <<100, 100, 100, 100>>
    /\ window_len = 2
    /\ thresholds = Tight

\* C4 as stated: in the scenario the window over indices 1, 2 is judged not
\* clear and the mask is true at indices 0 and 3.
C4_EndsOfScenarioTrue ==
    Scenario /\ pc = "done" =>
        /\ ~Verdict(1)
        /\ Mask[1]
        /\ Mask[4]

\* C4 amended: in the scenario the windows over indices 1, 2 and over 2, 3
\* are judged not clear and the window over 0, 1 clear; index 0 is true and
\* index 3, which only the window over 2, 3 contains, is false.
C4_ScenarioMask ==
    Scenario /\ pc = "done" =>
        /\ Verdict(0)
        /\ ~Verdict(1)
        /\ ~Verdict(2)
        /\ Mask = <<TRUE, TRUE, FALSE, FALSE>>

C4_Witness == Scenario /\ pc = "done"

\* C5: checkUserInterrupt is called once in every iteration; once an
\* interrupt is signalled during the scan, whatever the number of windows
\* processed, the only step the call takes ends it cancelled; a cancelled
\* call has returned nothing and its mask is gone; and no step changes the
\* series, the thresholds or the window length.
C5_Cancellation ==
    /\ [](checks = Len(visited))
    /\ [][pending => pc' = "cancelled" /\ checks' = checks + 1]_vars
    /\ []((err = "interrupt" \/ pc = "cancelled") =>
              /\ pc = "cancelled"
              /\ err = "interrupt"
              /\ result = NoResult
              /\ clear = <<>>)
    /\ [][/\ x' = x
          /\ cs' = cs
          /\ thresholds' = thresholds
          /\ window_len' = window_len]_vars

\* A call cancelled in its second iteration, after a window judged clear,
\* with windows left to process.
C5_Witness ==
    /\ pc = "cancelled"
    /\ checks = 2
    /\ allclear
    /\ Len(visited) < Len(x) - window_len + 1

\* Range b contains range a (as [min, max]).
RangeWithin(a, b) == MinSeq(b) <= MinSeq(a) /\ MaxSeq(a) <= MaxSeq(b)

\* Every range of th2 contains the range of th at its position.
Widens(th2, th) ==
    /\ Len(th2) = NumCriteria
    /\ Len(th) = NumCriteria
    /\ \A q \in 1..NumCriteria : RangeWithin(th[q], th2[q])

\* C6: every index true in the mask returned under the thresholds is true
\* in the mask of the same series and window length under any thresholds
\* that widen them.
C6_MonotonicThresholds ==
    pc = "done" =>
        \A th2 \in ThresholdSets :
            Widens(th2, thresholds) =>
                \A wider \in {clear_points(x, cs, th2, window_len)} :
                    \A q \in 1..Len(x) : Mask[q] => wider[q]

\* A returned mask with a false index that wider thresholds make true, and
\* a true index.
C6_Witness ==
    /\ pc = "done"
    /\ \E q \in 1..Len(x) : Mask[q]
    /\ \E th2 \in ThresholdSets :
           /\ Widens(th2, thresholds)
           /\ \E q \in 1..Len(x) :
                  ~Mask[q] /\ clear_points(x, cs, th2, window_len)[q]

\* The per window step on a mask, given the verdicts on the windows.
WindowStep(mask, off, judged) ==
    MarkWindow(mask, off, window_len, judged[off])

\* The steps of the windows order[lo], ..., order[hi] applied in turn.
RECURSIVE StepsInOrder(_, _, _, _, _)
StepsInOrder(order, lo, hi, mask, judged) ==
    IF lo > hi THEN mask
    ELSE StepsInOrder(order, lo + 1, hi,
                      WindowStep(mask, order[lo], judged), judged)

\* The steps of a set of windows on a mask, in ascending order.
RECURSIVE StepsOfSet(_, _, _)
StepsOfSet(set, mask, judged) ==
    IF set = {} THEN mask
    ELSE LET off == CHOOSE o \in set : \A o2 \in set : o <= o2
         IN  StepsOfSet(set \ {off}, WindowStep(mask, off, judged), judged)

\* Element wise OR of two masks.
OrMasks(a, b) == [q \in DOMAIN a |-> a[q] \/ b[q]]

\* C7: the steps of the windows applied in any permutation, or split over
\* two all false masks that are then merged by OR, give the mask the
\* sequential scan returned.
C7_OrderIndependence ==
    pc = "done" =>
        \A judged \in {Verdicts} : \A none \in {AllFalse(Len(x))} :
            /\ \A order \in Permutations(Starts) :
                   StepsInOrder(order, 0, Len(x) - window_len, none, judged)
                       = Mask
            /\ \A part \in SUBSET Starts :
                   OrMasks(StepsOfSet(part, none, judged),
                           StepsOfSet(Starts \ part, none, judged)) = Mask

\* A returned mask of a scan of three windows or more whose verdicts differ,
\* and whose clear windows overlap windows judged not clear.
C7_Witness ==
    /\ pc = "done"
    /\ Len(x) - window_len >= 2
    /\ window_len >= 2
    /\ \E a, b \in Starts : a + 1 = b /\ Verdict(a) /\ ~Verdict(b)
    /\ \E a, b \in Starts : a + 1 = b /\ ~Verdict(a) /\ Verdict(b)

\* C8: the mask starts all false, and an iteration of the scan never turns
\* a true entry false: a window judged clear turns the false entries of its
\* range true and changes nothing else, a window judged not clear changes
\* nothing.
C8_MaskMonotone ==
    /\ [](pc = "scan" /\ i = 0 => clear = AllFalse(Len(x)))
    /\ [][pc = "scan" /\ pc' \in {"scan", "done"} =>
              /\ DOMAIN clear' = DOMAIN clear
              /\ \A q \in DOMAIN clear :
                     /\ clear[q] => clear'[q]
                     /\ clear'[q] /\ ~clear[q]
                            => i' = i + 1 /\ allclear' /\ Covers(i, q)
                     /\ i' = i + 1 /\ allclear' /\ Covers(i, q)
                            => clear'[q]]_vars

\* A scan whose mask holds a true entry inside the window of an iteration
\* that judged its window not clear.
C8_Witness ==
    /\ pc = "scan"
    /\ i >= 2
    /\ ~allclear
    /\ \E q \in DOMAIN clear : clear[q] /\ Covers(i - 1, q)

\* The effective range of a pair of bounds, whatever their order.
Lo(b) == IF b[1] <= b[2] THEN b[1] ELSE b[2]
Hi(b) == IF b[1] <= b[2] THEN b[2] ELSE b[1]

\* lo <= c <= hi for a double c and integer bounds.
InRange(c, b) == c.k = "fin" /\ Lo(b) * Scale <= c.v /\ c.v <= Hi(b) * Scale

\* The thresholds with the two bounds of every range exchanged.
Swapped(th) == [q \in DOMAIN th |-> <<th[q][2], th[q][1]>>]

\* C9: evaluate_criterion returns true exactly when at every position the
\* criteria lies in [min, max] of the bounds at that position, both ends
\* included, and returns the same with the bounds of every pair exchanged.
C9_EvaluateByPosition ==
    pc = "evaluated" =>
        /\ allclear <=>
               \A q \in 1..NumCriteria : InRange(criterion[q], thresholds[q])
        /\ allclear = evaluate_criterion(criterion, Swapped(thresholds))

\* A call that returned false with only the last position out of its range,
\* the others on the ends of theirs.
C9_Witness ==
    /\ pc = "evaluated"
    /\ ~allclear
    /\ \A q \in 1..(NumCriteria - 1) :
           /\ InRange(criterion[q], thresholds[q])
           /\ criterion[q].v \in {Lo(thresholds[q]) * Scale,
                                  Hi(thresholds[q]) * Scale}
    /\ ~InRange(criterion[NumCriteria], thresholds[NumCriteria])

\* The offsets 0, 1, ..., m - 1 in order.
FirstOffsets(m) == [q \in 1..m |-> q - 1]

\* C10: the scan processes the windows at offsets 0, 1, ..., n - window_len
\* once each in that order; every window read and every mask range written
\* lies within the series; the call returns after n - window_len + 1
\* iterations a mask of the length of the series.
C10_ScanOrderAndBounds ==
    /\ pc = "scan" =>
           /\ 0 <= i /\ i + window_len <= Len(x)
           /\ Len(clear) = Len(x) /\ Len(cs) = Len(x)
           /\ visited = FirstOffsets(i)
    /\ pc = "done" =>
           /\ visited = FirstOffsets(Len(x) - window_len + 1)
           /\ checks = Len(x) - window_len + 1
           /\ i = Len(x) - window_len + 1
           /\ Len(Mask) = Len(x)

\* A call that returned after three iterations over windows of two points.
C10_Witness ==
    /\ pc = "done"
    /\ Len(visited) = 3
    /\ window_len = 2

====
